---------------------------- MODULE Spec2Model ----------------------------
(***************************************************************************)
(* A model of two pieces of the iotedge repository:                        *)
(*   - tools/snitch/snitcher/src/client.rs: the generic HTTP client        *)
(*     (Client::new, Clone, request_bytes, request, request_str) running   *)
(*     against an abstract transport (hyper Service) behind Arc<Mutex<S>>;  *)
(*   - edgelet/edgelet-http/src/error.rs: the Error / ErrorKind model and   *)
(*     its rendering by IntoResponse::into_response.                       *)
(* Text is modelled as a sequence of chunks: a chunk is one character, or,  *)
(* in the error model, a run of characters that no escaping touches.       *)
(***************************************************************************)
EXTENDS Integers, Sequences, FiniteSets, TLC

VARIABLES
    clients,      \* sequence of Client values: [service, host_name]
    mutexes,      \* sequence of Arc<Mutex<S>> allocations: [holder, poisoned]
    pc,           \* per call: position in request_bytes and its future
    args,         \* per call: the arguments the call was made with
    req,          \* per call: the built hyper Request, until it is moved into call()
    sent,         \* per call: the Request the transport received
    invoked,      \* per call: number of times Service::call was invoked for it
    resp,         \* per call: the response as far as it has been received
    bytesResult,  \* per call: what the future of request_bytes resolved to
    result,       \* per call: what the future of the called method resolved to
    heap,         \* error.rs: the Fail values created so far (a node per value)
    owned,        \* error.rs: nodes moved into another value (its cause) or consumed
    epc,          \* error.rs: position in into_response
    self,         \* error.rs: the Error into_response was called on
    fail,         \* error.rs: the local `fail` of into_response
    message,      \* error.rs: the local `message` of into_response
    steps,        \* error.rs: iterations of the while loop so far
    response,     \* error.rs: the Response into_response returned
    kindSeen      \* error.rs: the &ErrorKind the last call of kind() returned

clientVars == <<clients, mutexes, pc, args, req, sent, invoked, resp, bytesResult, result>>
errorVars == <<heap, owned, epc, self, fail, message, steps, response, kindSeen>>
vars == <<clients, mutexes, pc, args, req, sent, invoked, resp, bytesResult, result,
          heap, owned, epc, self, fail, message, steps, response, kindSeen>>

-----------------------------------------------------------------------------
(* Bounds *)

NumCalls == 2
MaxClients == 2

Calls == 1..NumCalls

-----------------------------------------------------------------------------
(* Option and Result values *)

None == [some |-> FALSE]
Some(x) == [some |-> TRUE, val |-> x]

Ok(x) == [tag |-> "Ok", val |-> x]
Err(e) == [tag |-> "Err", err |-> e]
Unresolved == [tag |-> "Unresolved"]

NoReq == [built |-> FALSE]
NoResp == [received |-> FALSE]
NoArgs == [called |-> FALSE]

-----------------------------------------------------------------------------
(* crate::error::Error of snitcher: the conversions client.rs relies on     *)

IoFailure(what) == [type |-> "IoError", what |-> what]
HyperFailure(what) == [type |-> "HyperError", what |-> what]
ParseFailure(what) == [type |-> "ParseError", what |-> what]
SerdeFailure(op) == [type |-> "SerdeError", what |-> op]
Utf8Failure == [type |-> "Utf8Error", what |-> "invalid utf-8"]

ErrorFrom(f) ==
    [kind |-> CASE f.type = "IoError" -> "Io"
                [] f.type = "HyperError" -> "Transport"
                [] f.type = "ParseError" -> "UrlParse"
                [] f.type = "SerdeError" ->
                       IF f.what = "ser" THEN "JsonEncode" ELSE "JsonDecode"
                [] f.type = "Utf8Error" -> "Utf8Decode",
     cause |-> f]

ErrorFromStatus(status, body) ==
    [kind |-> "RemoteFailure", status |-> status, body |-> body]

-----------------------------------------------------------------------------
(* Text helpers *)

RECURSIVE IndexOf(_, _, _)
IndexOf(s, ch, i) ==
    IF i > Len(s) THEN 0
    ELSE IF s[i] = ch THEN i ELSE IndexOf(s, ch, i + 1)

StartsWith(s, p) == Len(s) >= Len(p) /\ SubSeq(s, 1, Len(p)) = p

-----------------------------------------------------------------------------
(* Query construction, client.rs lines 52-67 *)

\* url::form_urlencoded byte serialisation: alphanumerics stay, a space becomes
\* '+', every other byte becomes %XX.
EncodeChar(ch) ==
    CASE ch = " " -> <<"+">>
      [] ch = "&" -> <<"%", "2", "6">>
      [] ch = "=" -> <<"%", "3", "D">>
      [] ch = "?" -> <<"%", "3", "F">>
      [] OTHER -> <<ch>>

RECURSIVE EncodeStr(_)
EncodeStr(s) == IF s = <<>> THEN <<>> ELSE EncodeChar(Head(s)) \o EncodeStr(Tail(s))

\* UrlSerializer::append_pair folded over the mapping in its iteration order.
RECURSIVE AppendPairs(_, _)
AppendPairs(target, pairs) ==
    IF pairs = <<>> THEN target
    ELSE LET p == Head(pairs)
             sep == IF target = <<>> THEN <<>> ELSE <<"&">>
         IN AppendPairs(target \o sep \o EncodeStr(p[1]) \o <<"=">> \o EncodeStr(p[2]),
                        Tail(pairs))

\* the '?' prefix given to an empty serialisation too
QueryString_PrefixesEmpty(query) ==
    IF ~query.some THEN <<>> ELSE <<"?">> \o AppendPairs(<<>>, query.val)

QueryString(query) ==
    IF ~query.some THEN <<>>
    ELSE LET q == AppendPairs(<<>>, query.val)
         IN IF q # <<>> THEN <<"?">> \o q ELSE <<>>

-----------------------------------------------------------------------------
(* URL join and URI conversion, client.rs lines 72-88 *)

\* Url::join of a relative reference made of an absolute path and a query: the
\* reference is split at its first '?'; a reference opening an authority with
\* an unterminated IPv6 literal ("//[") does not parse.
Join(host_name, rel) ==
    IF StartsWith(rel, <<"/", "/", "[">>)
    THEN [ok |-> FALSE, err |-> ParseFailure("invalid IPv6 address")]
    ELSE LET q == IndexOf(rel, "?", 1)
         IN [ok |-> TRUE,
             url |-> [host |-> host_name,
                      path |-> IF q = 0 THEN rel ELSE SubSeq(rel, 1, q - 1),
                      query |-> IF q = 0 THEN None
                                ELSE Some(SubSeq(rel, q + 1, Len(rel)))]]

\* Url::as_str parsed as an http::Uri.
UriOf(url) ==
    url.host \o url.path \o (IF url.query.some THEN <<"?">> \o url.query.val ELSE <<>>)

-----------------------------------------------------------------------------
(* JSON and UTF-8 codecs for the body types of the model *)

\* BodyT / ResponseT values: a string, or a map whose keys are not strings
\* (serde_json refuses to serialise it).
StrValue(s) == [t |-> "str", s |-> s]
BadMapValue == [t |-> "map_with_non_string_key"]

RECURSIVE Escape(_)
Escape(s) ==
    IF s = <<>> THEN <<>>
    ELSE (IF Head(s) \in {"\"", "\\"} THEN <<"\\", Head(s)>> ELSE <<Head(s)>>)
         \o Escape(Tail(s))

\* serde_json::to_string
ToJson(v) ==
    IF v.t = "str"
    THEN [ok |-> TRUE, text |-> <<"\"">> \o Escape(v.s) \o <<"\"">>]
    ELSE [ok |-> FALSE, err |-> SerdeFailure("ser")]

\* the inside of a JSON string literal: None when an escape is malformed or a
\* bare quote or an invalid byte appears
RECURSIVE Unescape(_)
Unescape(s) ==
    IF s = <<>> THEN Some(<<>>)
    ELSE IF Head(s) = "\\"
         THEN IF Len(s) >= 2 /\ s[2] \in {"\"", "\\"}
              THEN LET r == Unescape(SubSeq(s, 3, Len(s)))
                   IN IF r.some THEN Some(<<s[2]>> \o r.val) ELSE None
              ELSE None
         ELSE IF Head(s) \in {"\"", "#FF"} THEN None
              ELSE LET r == Unescape(Tail(s))
                   IN IF r.some THEN Some(<<Head(s)>> \o r.val) ELSE None

\* serde_json::from_slice::<ResponseT> with ResponseT a string
FromJson(bytes) ==
    IF Len(bytes) >= 2 /\ bytes[1] = "\"" /\ bytes[Len(bytes)] = "\""
    THEN LET r == Unescape(SubSeq(bytes, 2, Len(bytes) - 1))
         IN IF r.some THEN [ok |-> TRUE, val |-> StrValue(r.val)]
            ELSE [ok |-> FALSE, err |-> SerdeFailure("de")]
    ELSE [ok |-> FALSE, err |-> SerdeFailure("de")]

\* str::from_utf8: "#FF" stands for a byte that is no valid UTF-8
FromUtf8(bytes) ==
    IF \E i \in 1..Len(bytes) : bytes[i] = "#FF"
    THEN [ok |-> FALSE, err |-> Utf8Failure]
    ELSE [ok |-> TRUE, val |-> bytes]

-----------------------------------------------------------------------------
(* Building the request, client.rs lines 52-105 *)

\* a body that does not serialise is replaced by an empty payload
BuildRequest_SkipBadBody(host_name, a) ==
    LET joined == Join(host_name, a.path \o <<"?">> \o QueryString(a.query))
        serialized == IF a.body.some THEN ToJson(a.body.val) ELSE [ok |-> FALSE]
    IN IF ~joined.ok THEN [ok |-> FALSE, err |-> ErrorFrom(joined.err)]
       ELSE [ok |-> TRUE,
             req |-> [built |-> TRUE, method |-> a.method, uri |-> UriOf(joined.url),
                      headers |-> <<>>,
                      body |-> IF serialized.ok THEN serialized.text ELSE <<>>]]

BuildRequest(host_name, a) ==
    LET query == QueryString(a.query)
        joined == Join(host_name, a.path \o <<"?">> \o query)
    IN IF ~joined.ok THEN [ok |-> FALSE, err |-> ErrorFrom(joined.err)]
       ELSE LET uri == UriOf(joined.url)
                h1 == IF a.add_if_match THEN << <<"if-match", <<"A", "n", "y">> >> >>
                      ELSE <<>>
            IN IF a.body.some
               THEN LET serialized == ToJson(a.body.val)
                    IN IF ~serialized.ok
                       THEN [ok |-> FALSE, err |-> ErrorFrom(serialized.err)]
                       ELSE [ok |-> TRUE,
                             req |-> [built |-> TRUE,
                                      method |-> a.method,
                                      uri |-> uri,
                                      headers |-> h1 \o
                                          << <<"content-type", <<"text/json">> >>,
                                             <<"content-length", Len(serialized.text)>> >>,
                                      body |-> serialized.text]]
               ELSE [ok |-> TRUE,
                     req |-> [built |-> TRUE, method |-> a.method, uri |-> uri,
                              headers |-> h1, body |-> <<>>]]

\* StatusCode::is_success
IsSuccess(status) == status >= 200 /\ status < 300

\* an empty body taken for Some(empty)
Classify_EmptyIsSome(status, body) ==
    IF IsSuccess(status) THEN Ok(Some(body)) ELSE Err(ErrorFromStatus(status, body))

\* an empty body taken for "nothing to report" whatever the status
Classify_EmptyIsNone(status, body) ==
    IF Len(body) = 0 THEN Ok(None)
    ELSE IF IsSuccess(status) THEN Ok(Some(body))
    ELSE Err(ErrorFromStatus(status, body))

\* the last and_then of request_bytes, client.rs lines 129-140
Classify(status, body) ==
    IF IsSuccess(status)
    THEN IF Len(body) = 0 THEN Ok(None) ELSE Ok(Some(body))
    ELSE Err(ErrorFromStatus(status, body))

\* request decoding the way request_str does: the bytes are the string
Finish_JsonAsText(kind, r) ==
    IF r.tag = "Err" \/ kind = "bytes" THEN r
    ELSE IF ~r.val.some THEN Ok(None)
    ELSE LET d == FromUtf8(r.val.val)
         IN IF ~d.ok THEN Err(ErrorFrom(d.err))
            ELSE IF kind = "json" THEN Ok(Some(StrValue(d.val)))
            ELSE Ok(Some(d.val))

\* a decoding step that takes "no body" for an empty body and decodes it
Finish_DecodesEmpty(kind, r) ==
    IF r.tag = "Err" \/ kind = "bytes" THEN r
    ELSE LET bytes == IF r.val.some THEN r.val.val ELSE <<>>
             d == IF kind = "json" THEN FromJson(bytes) ELSE FromUtf8(bytes)
         IN IF d.ok THEN Ok(Some(d.val)) ELSE Err(ErrorFrom(d.err))

\* what request (lines 159-171) and request_str (lines 185-195) chain onto the
\* future of request_bytes; request_bytes itself adds nothing
Finish(kind, r) ==
    IF r.tag = "Err" \/ kind = "bytes" THEN r
    ELSE IF ~r.val.some THEN Ok(None)
    ELSE IF kind = "json"
         THEN LET d == FromJson(r.val.val)
              IN IF d.ok THEN Ok(Some(d.val)) ELSE Err(ErrorFrom(d.err))
         ELSE LET d == FromUtf8(r.val.val)
              IN IF d.ok THEN Ok(Some(d.val)) ELSE Err(ErrorFrom(d.err))

-----------------------------------------------------------------------------
(* Inputs and transport behaviours the actions draw from *)

HostName == <<"h">>
GoodPath == <<"/", "m">>
BadPath == <<"/", "/", "[">>

AllQueries ==
    { None, Some(<<>>), Some(<< <<<<"k">>, <<"v">>>> >>),
      Some(<< <<<<"a", " ">>, <<"&">>>>, <<<<"k">>, <<>>>> >>) }

AllBodies ==
    { None, Some(StrValue(<<>>)), Some(StrValue(<<"a">>)), Some(StrValue(<<"\"">>)),
      Some(BadMapValue) }

ArgsOver(kinds, methods, paths, queries, bodies, flags) ==
    [called : {TRUE}, client : 1..MaxClients, kind : kinds, method : methods,
     path : paths, query : queries, body : bodies, add_if_match : flags]

\* every kind of input, for one call at a time
FullProfile ==
    [args |-> ArgsOver({"bytes", "json", "str"}, {"GET", "PUT"}, {GoodPath, BadPath},
                       AllQueries, AllBodies, BOOLEAN),
     statuses |-> {199, 200, 299, 300, 404},
     bodies |-> { <<>>, <<"x">>, <<"\"", "a", "\"">>, <<"#FF">> },
     errors |-> {"connection closed", "incomplete message"}]

\* the inputs that decide the path through request_bytes, for concurrent calls
ConcurrentProfile ==
    [args |-> ArgsOver({"bytes"}, {"GET"}, {GoodPath, BadPath},
                       {None}, {None}, {FALSE}),
     statuses |-> {200, 404},
     bodies |-> { <<>>, <<"x">> },
     errors |-> {"connection closed"}]

-----------------------------------------------------------------------------
(* Client::new and Clone, client.rs lines 34-39 and 199-208 *)

NewClient == [service |-> 1, host_name |-> HostName]
NewMutex == [holder |-> 0, poisoned |-> FALSE]

\* a clone that wraps a transport of its own instead of sharing the handle
CloneOf_OwnTransport(c) == [service |-> c.service + 1, host_name |-> c.host_name]

CloneOf(c) == [service |-> c.service, host_name |-> c.host_name]

Clone ==
    /\ Len(clients) < MaxClients
    /\ \E i \in 1..Len(clients) : clients' = Append(clients, CloneOf(clients[i]))
    /\ UNCHANGED <<mutexes, pc, args, req, sent, invoked, resp, bytesResult, result>>
    /\ UNCHANGED errorVars

-----------------------------------------------------------------------------
(* request_bytes / request / request_str, client.rs lines 41-196 *)

ServiceOf(c) == clients[args[c].client].service

\* the synchronous part up to the lock: query, join, request; a failure here
\* resolves the returned future (Either::B) to the error
RequestBytes(c, P) ==
    /\ pc[c] = "idle"
    /\ \E a \in P.args :
        /\ a.client <= Len(clients)
        /\ LET b == BuildRequest(clients[a.client].host_name, a)
           IN /\ args' = [args EXCEPT ![c] = a]
              /\ IF b.ok
                 THEN /\ req' = [req EXCEPT ![c] = b.req]
                      /\ pc' = [pc EXCEPT ![c] = "built"]
                      /\ UNCHANGED <<bytesResult, result>>
                 ELSE /\ bytesResult' = [bytesResult EXCEPT ![c] = Err(b.err)]
                      /\ result' = [result EXCEPT ![c] = Finish(a.kind, Err(b.err))]
                      /\ pc' = [pc EXCEPT ![c] = "done"]
                      /\ UNCHANGED req
    /\ UNCHANGED <<clients, mutexes, sent, invoked, resp>>
    /\ UNCHANGED errorVars

\* a lock that does not wait for its holder
Lock_NoExclusion(c) ==
    /\ pc[c] = "built"
    /\ ~mutexes[ServiceOf(c)].poisoned
    /\ mutexes' = [mutexes EXCEPT ![ServiceOf(c)].holder = c]
    /\ pc' = [pc EXCEPT ![c] = "locked"]
    /\ UNCHANGED <<clients, args, req, sent, invoked, resp, bytesResult, result>>
    /\ UNCHANGED errorVars

\* self.service.lock().unwrap() on a healthy mutex, line 108-111
Lock(c) ==
    /\ pc[c] = "built"
    /\ mutexes[ServiceOf(c)].holder = 0
    /\ ~mutexes[ServiceOf(c)].poisoned
    /\ mutexes' = [mutexes EXCEPT ![ServiceOf(c)].holder = c]
    /\ pc' = [pc EXCEPT ![c] = "locked"]
    /\ UNCHANGED <<clients, args, req, sent, invoked, resp, bytesResult, result>>
    /\ UNCHANGED errorVars

\* lock() on a poisoned mutex returns Err and unwrap() panics
LockPoisoned(c) ==
    /\ pc[c] = "built"
    /\ mutexes[ServiceOf(c)].holder = 0
    /\ mutexes[ServiceOf(c)].poisoned
    /\ pc' = [pc EXCEPT ![c] = "panicked"]
    /\ UNCHANGED <<clients, mutexes, args, req, sent, invoked, resp, bytesResult, result>>
    /\ UNCHANGED errorVars

\* Service::call(req) under the guard, line 112: the request is moved into the
\* transport, which returns the response future
Call(c) ==
    /\ pc[c] = "locked"
    /\ invoked' = [invoked EXCEPT ![c] = @ + 1]
    /\ sent' = [sent EXCEPT ![c] = req[c]]
    /\ req' = [req EXCEPT ![c] = NoReq]
    /\ pc' = [pc EXCEPT ![c] = "called"]
    /\ UNCHANGED <<clients, mutexes, args, resp, bytesResult, result>>
    /\ UNCHANGED errorVars

\* a lock that is released by a panicking holder without being poisoned
CallPanic_NoPoison(c) ==
    /\ pc[c] = "locked"
    /\ invoked' = [invoked EXCEPT ![c] = @ + 1]
    /\ sent' = [sent EXCEPT ![c] = req[c]]
    /\ req' = [req EXCEPT ![c] = NoReq]
    /\ mutexes' = [mutexes EXCEPT ![ServiceOf(c)] = [holder |-> 0, poisoned |-> FALSE]]
    /\ pc' = [pc EXCEPT ![c] = "panicked"]
    /\ UNCHANGED <<clients, args, resp, bytesResult, result>>
    /\ UNCHANGED errorVars

\* Service::call panics: the guard is dropped while unwinding, which poisons
\* the mutex
CallPanic(c) ==
    /\ pc[c] = "locked"
    /\ invoked' = [invoked EXCEPT ![c] = @ + 1]
    /\ sent' = [sent EXCEPT ![c] = req[c]]
    /\ req' = [req EXCEPT ![c] = NoReq]
    /\ mutexes' = [mutexes EXCEPT ![ServiceOf(c)] = [holder |-> 0, poisoned |-> TRUE]]
    /\ pc' = [pc EXCEPT ![c] = "panicked"]
    /\ UNCHANGED <<clients, args, resp, bytesResult, result>>
    /\ UNCHANGED errorVars

\* a guard that outlives the statement and is never dropped
Unlock_KeepGuard(c) ==
    /\ pc[c] = "called"
    /\ pc' = [pc EXCEPT ![c] = "pending"]
    /\ UNCHANGED <<clients, mutexes, args, req, sent, invoked, resp, bytesResult, result>>
    /\ UNCHANGED errorVars

\* end of the `let res = ...;` statement, line 140: the temporary MutexGuard is
\* dropped once the combinators are chained, before the future is returned
Unlock(c) ==
    /\ pc[c] = "called"
    /\ mutexes' = [mutexes EXCEPT ![ServiceOf(c)].holder = 0]
    /\ pc' = [pc EXCEPT ![c] = "pending"]
    /\ UNCHANGED <<clients, args, req, sent, invoked, resp, bytesResult, result>>
    /\ UNCHANGED errorVars

\* a failed dispatch that is tried again instead of being surfaced
TransportError_Retry(c, P) ==
    /\ pc[c] = "pending"
    /\ invoked[c] < 3
    /\ req' = [req EXCEPT ![c] = sent[c]]
    /\ pc' = [pc EXCEPT ![c] = "built"]
    /\ UNCHANGED <<clients, mutexes, args, sent, invoked, resp, bytesResult, result>>
    /\ UNCHANGED errorVars

\* the response future fails: map_err of lines 113-116
TransportError(c, P) ==
    /\ pc[c] = "pending"
    /\ \E e \in P.errors :
        LET r == Err(ErrorFrom(HyperFailure(e)))
        IN /\ bytesResult' = [bytesResult EXCEPT ![c] = r]
           /\ result' = [result EXCEPT ![c] = Finish(args[c].kind, r)]
    /\ pc' = [pc EXCEPT ![c] = "done"]
    /\ UNCHANGED <<clients, mutexes, args, req, sent, invoked, resp>>
    /\ UNCHANGED errorVars

\* a failure status classified on the response head, the body left unread
TransportResponse_ClassifiesEarly(c, P) ==
    /\ pc[c] = "pending"
    /\ \E s \in P.statuses :
        /\ resp' = [resp EXCEPT ![c] = [received |-> TRUE, status |-> s,
                                        read |-> "reading", body |-> <<>>]]
        /\ IF IsSuccess(s)
           THEN /\ pc' = [pc EXCEPT ![c] = "reading"]
                /\ UNCHANGED <<bytesResult, result>>
           ELSE LET r == Err(ErrorFromStatus(s, <<>>))
                IN /\ bytesResult' = [bytesResult EXCEPT ![c] = r]
                   /\ result' = [result EXCEPT ![c] = Finish(args[c].kind, r)]
                   /\ pc' = [pc EXCEPT ![c] = "done"]
    /\ UNCHANGED <<clients, mutexes, args, req, sent, invoked>>
    /\ UNCHANGED errorVars

\* the response head arrives: lines 117-122, body.concat2() starts
TransportResponse(c, P) ==
    /\ pc[c] = "pending"
    /\ \E s \in P.statuses :
        resp' = [resp EXCEPT ![c] = [received |-> TRUE, status |-> s,
                                     read |-> "reading", body |-> <<>>]]
    /\ pc' = [pc EXCEPT ![c] = "reading"]
    /\ UNCHANGED <<clients, mutexes, args, req, sent, invoked, bytesResult, result>>
    /\ UNCHANGED errorVars

\* a body-read failure wrapped as an io::Error
BodyReadError_AsIo(c, P) ==
    /\ pc[c] = "reading"
    /\ \E e \in P.errors :
        LET r == Err(ErrorFrom(IoFailure(e)))
        IN /\ bytesResult' = [bytesResult EXCEPT ![c] = r]
           /\ result' = [result EXCEPT ![c] = Finish(args[c].kind, r)]
    /\ resp' = [resp EXCEPT ![c].read = "failed"]
    /\ pc' = [pc EXCEPT ![c] = "done"]
    /\ UNCHANGED <<clients, mutexes, args, req, sent, invoked>>
    /\ UNCHANGED errorVars

\* concat2 fails with the body stream's hyper::Error: map_err of lines 124-127
BodyReadError(c, P) ==
    /\ pc[c] = "reading"
    /\ \E e \in P.errors :
        LET r == Err(ErrorFrom(HyperFailure(e)))
        IN /\ bytesResult' = [bytesResult EXCEPT ![c] = r]
           /\ result' = [result EXCEPT ![c] = Finish(args[c].kind, r)]
    /\ resp' = [resp EXCEPT ![c].read = "failed"]
    /\ pc' = [pc EXCEPT ![c] = "done"]
    /\ UNCHANGED <<clients, mutexes, args, req, sent, invoked>>
    /\ UNCHANGED errorVars

\* concat2 buffers the whole body; the status is classified (lines 129-140)
\* and the caller's decoding step runs on the result
BodyRead(c, P) ==
    /\ pc[c] = "reading"
    /\ \E b \in P.bodies \cup {sent[c].body} :
        LET r == Classify(resp[c].status, b)
        IN /\ resp' = [resp EXCEPT ![c].read = "buffered", ![c].body = b]
           /\ bytesResult' = [bytesResult EXCEPT ![c] = r]
           /\ result' = [result EXCEPT ![c] = Finish(args[c].kind, r)]
    /\ pc' = [pc EXCEPT ![c] = "done"]
    /\ UNCHANGED <<clients, mutexes, args, req, sent, invoked>>
    /\ UNCHANGED errorVars

-----------------------------------------------------------------------------
(* edgelet-http error.rs: ErrorKind, Error and the values they wrap *)

MaxNodes == 4

Kind(name) == [name |-> name, uri |-> <<>>]
InvalidUri(uri) == [name |-> "InvalidUri", uri |-> uri]

\* Texts of the error model are sequences of chunks; "U+00E9" stands for one
\* character that takes two bytes in UTF-8
ErrorKinds ==
    { Kind("Io"), Kind("Hyper"), Kind("InvalidApiVersion"),
      InvalidUri(<<"/", "U+00E9">>), Kind("UrlParse"), Kind("HyperPipe") }

\* #[fail(display = ...)] of ErrorKind, lines 21-36
KindDisplay(kind) ==
    CASE kind.name = "Io" -> <<"IO error">>
      [] kind.name = "Hyper" -> <<"Hyper error">>
      [] kind.name = "InvalidApiVersion" -> <<"Invalid or missing API version">>
      [] kind.name = "InvalidUri" -> <<"Invalid uri ">> \o kind.uri
      [] kind.name = "UrlParse" -> <<"Cannot parse uri">>
      [] kind.name = "HyperPipe" -> <<"Named pipe error">>

\* the lower-level failures the From impls take, with their display text
LowLevelFailures ==
    { [type |-> "io::Error", text |-> <<"entity not found">>],
      [type |-> "HyperError", text |-> <<"connection closed">>],
      [type |-> "ParseError", text |-> <<"invalid port number">>],
      [type |-> "PipeError", text |-> <<"pipe busy">>] }

NoKind == [name |-> "", uri |-> <<>>]

\* no reference to the kind of an Error is held
NoKindSeen == [node |-> 0, kind |-> NoKind]

\* The model follows one Error value at a time, from its creation to its
\* rendering: an Error owns its chain of causes exclusively.
\* a value implementing Fail, as a node: an Error (a Context<ErrorKind>) has a
\* kind and an optional cause; a lower-level failure has a text and no cause
ErrorNode(kind, cause) == [type |-> "Error", kind |-> kind, text |-> <<>>, cause |-> cause]
FailureNode(f) == [type |-> f.type, kind |-> NoKind, text |-> f.text, cause |-> 0]

\* Display for Error (lines 48-52) shows the context, i.e. the kind
Display(node) == IF node.type = "Error" THEN KindDisplay(node.kind) ELSE node.text

\* Fail::cause (lines 38-41)
Cause(n) == heap[n].cause

\* Error::kind (lines 54-58)
KindOf(n) == heap[n].kind

Free(n) == n \in 1..Len(heap) /\ n \notin owned

ErrIdle == epc = "idle"

\* From<ErrorKind> for Error, lines 60-66: Context::new(kind), no cause
FromKind ==
    /\ ErrIdle
    /\ heap = <<>>
    /\ \E k \in ErrorKinds : heap' = Append(heap, ErrorNode(k, 0))
    /\ UNCHANGED <<owned, epc, self, fail, message, steps, response>>
    /\ UNCHANGED kindSeen
    /\ UNCHANGED clientVars

\* a context whose cause refers to the context itself
ContextNode_SelfCause(f, kind) == ErrorNode(kind, f + 1)

\* the node of fail.context(kind): the failure is moved into the context
ContextNode(f, kind) == ErrorNode(kind, f)

\* From<Context<ErrorKind>> for Error, lines 68-72, on the context made by
\* wrapping an existing value f: f.context(kind)
FromContext ==
    /\ ErrIdle
    /\ Len(heap) < MaxNodes
    /\ \E f \in 1..Len(heap), k \in ErrorKinds :
        /\ Free(f)
        /\ heap' = Append(heap, ContextNode(f, k))
        /\ owned' = owned \cup {f}
    /\ UNCHANGED <<epc, self, fail, message, steps, response>>
    /\ kindSeen' = NoKindSeen
    /\ UNCHANGED clientVars

\* a conversion that files a transport failure under the I/O kind
KindFor_HyperAsIo(type) ==
    CASE type = "HyperError" -> Kind("Io")
      [] type = "io::Error" -> Kind("Io")
      [] type = "ParseError" -> Kind("UrlParse")
      [] type = "PipeError" -> Kind("HyperPipe")

\* the kind each From impl attaches, lines 74-111
KindFor(type) ==
    CASE type = "HyperError" -> Kind("Hyper")
      [] type = "io::Error" -> Kind("Io")
      [] type = "ParseError" -> Kind("UrlParse")
      [] type = "PipeError" -> Kind("HyperPipe")

\* From<HyperError>, From<io::Error>, From<ParseError>, From<PipeError> for
\* Error, lines 74-111: error.context(kind)
FromFailure ==
    /\ ErrIdle
    /\ heap = <<>>
    /\ \E f \in LowLevelFailures :
        /\ heap' = heap \o <<FailureNode(f), ContextNode(Len(heap) + 1, KindFor(f.type))>>
        /\ owned' = owned \cup {Len(heap) + 1}
    /\ UNCHANGED <<epc, self, fail, message, steps, response>>
    /\ UNCHANGED kindSeen
    /\ UNCHANGED clientVars

\* Error::kind (lines 54-58) called on an Error the caller holds: it borrows
\* the Error and returns a reference to the context of its inner Context; the
\* borrow ends before the Error is moved (wrapped or rendered)
KindCall ==
    /\ ErrIdle
    /\ \E e \in 1..Len(heap) :
        /\ Free(e)
        /\ heap[e].type = "Error"
        /\ kindSeen' = [node |-> e, kind |-> KindOf(e)]
    /\ UNCHANGED <<heap, owned, epc, self, fail, message, steps, response>>
    /\ UNCHANGED clientVars

-----------------------------------------------------------------------------
(* IntoResponse for Error, lines 113-138 *)

\* serde_json's escaping inside a string literal
JsonEscapeChar(ch) ==
    CASE ch = "\n" -> <<"\\", "n">>
      [] ch = "\t" -> <<"\\", "t">>
      [] ch = "\"" -> <<"\\", "\"">>
      [] ch = "\\" -> <<"\\", "\\">>
      [] OTHER -> <<ch>>

RECURSIVE JsonEscapeFrom(_, _)
JsonEscapeFrom(s, i) ==
    IF i > Len(s) THEN <<>> ELSE JsonEscapeChar(s[i]) \o JsonEscapeFrom(s, i + 1)

JsonEscape(s) == JsonEscapeFrom(s, 1)

\* json!({"message": message}).to_string(), lines 127-129
JsonBody(msg) == <<"{", "\"", "message", "\"", ":", "\"">> \o JsonEscape(msg) \o <<"\"", "}">>

\* String::len: the number of bytes of the UTF-8 encoding
\* the number of bytes of a chunk of text in UTF-8
ChunkBytes(chunk) ==
    CASE chunk = "IO error" -> 8
      [] chunk = "Hyper error" -> 11
      [] chunk = "Invalid or missing API version" -> 30
      [] chunk = "Invalid uri " -> 12
      [] chunk = "Cannot parse uri" -> 16
      [] chunk = "Named pipe error" -> 16
      [] chunk = "entity not found" -> 16
      [] chunk = "connection closed" -> 17
      [] chunk = "invalid port number" -> 19
      [] chunk = "pipe busy" -> 9
      [] chunk = "caused by: " -> 11
      [] chunk = "message" -> 7
      [] chunk = "U+00E9" -> 2
      [] OTHER -> 1

RECURSIVE ByteLenFrom(_, _)
ByteLenFrom(s, i) ==
    IF i > Len(s) THEN 0 ELSE ChunkBytes(s[i]) + ByteLenFrom(s, i + 1)

ByteLen(s) == ByteLenFrom(s, 1)

\* lines 122-125
StatusCodeFor(kind) == IF kind.name = "InvalidApiVersion" THEN 400 ELSE 500

\* lines 115-116: fail = &self, message = self.to_string()
IntoResponseStart ==
    /\ ErrIdle
    /\ \E e \in 1..Len(heap) :
        /\ Free(e)
        /\ heap[e].type = "Error"
        /\ self' = e
        /\ fail' = e
        /\ message' = Display(heap[e])
    /\ steps' = 0
    /\ epc' = "walk"
    /\ UNCHANGED <<heap, owned, response>>
    /\ kindSeen' = NoKindSeen
    /\ UNCHANGED clientVars

\* the message repeats the current value instead of naming its cause
Walk_RepeatsCurrent ==
    /\ epc = "walk"
    /\ Cause(fail) # 0
    /\ message' = message \o <<"\n", "\t", "caused by: ">> \o Display(heap[fail])
    /\ fail' = Cause(fail)
    /\ steps' = steps + 1
    /\ UNCHANGED <<heap, owned, epc, self, response>>
    /\ UNCHANGED kindSeen
    /\ UNCHANGED clientVars

\* the length announced is that of the message, not of the JSON body
Render_LengthOfMessage ==
    /\ epc = "walk"
    /\ Cause(fail) = 0
    /\ \E body \in {JsonBody(message)} :
          response' = [built |-> TRUE,
                       status |-> StatusCodeFor(KindOf(self)),
                       content_type |-> "application/json",
                       content_length |-> ByteLen(message),
                       body |-> body]
    /\ epc' = "done"
    /\ UNCHANGED <<heap, owned, self, fail, message, steps>>
    /\ UNCHANGED kindSeen
    /\ UNCHANGED clientVars

\* the status is taken from where the walk ended, not from the Error itself
Render_StatusFromFail ==
    /\ epc = "walk"
    /\ Cause(fail) = 0
    /\ \E body \in {JsonBody(message)} :
          response' = [built |-> TRUE,
                       status |-> StatusCodeFor(KindOf(fail)),
                       content_type |-> "application/json",
                       content_length |-> ByteLen(body),
                       body |-> body]
    /\ epc' = "done"
    /\ UNCHANGED <<heap, owned, self, fail, message, steps>>
    /\ UNCHANGED kindSeen
    /\ UNCHANGED clientVars

\* one iteration of `while let Some(cause) = fail.cause()`, lines 117-120
Walk ==
    /\ epc = "walk"
    /\ Cause(fail) # 0
    /\ message' = message \o <<"\n", "\t", "caused by: ">> \o Display(heap[Cause(fail)])
    /\ fail' = Cause(fail)
    /\ steps' = steps + 1
    /\ UNCHANGED <<heap, owned, epc, self, response>>
    /\ UNCHANGED kindSeen
    /\ UNCHANGED clientVars

\* the loop ends and the response is built, lines 122-137
Render ==
    /\ epc = "walk"
    /\ Cause(fail) = 0
    /\ \E body \in {JsonBody(message)} :
          response' = [built |-> TRUE,
                       status |-> StatusCodeFor(KindOf(self)),
                       content_type |-> "application/json",
                       content_length |-> ByteLen(body),
                       body |-> body]
    /\ epc' = "done"
    /\ UNCHANGED <<heap, owned, self, fail, message, steps>>
    /\ UNCHANGED kindSeen
    /\ UNCHANGED clientVars

NoResponse == [built |-> FALSE]

\* into_response took the Error by value: it is dropped when the response has
\* been returned
Return ==
    /\ epc = "done"
    /\ owned' = owned \cup {self}
    /\ epc' = "idle"
    /\ self' = 0
    /\ fail' = 0
    /\ message' = <<>>
    /\ steps' = 0
    /\ response' = NoResponse
    /\ UNCHANGED heap
    /\ UNCHANGED kindSeen
    /\ UNCHANGED clientVars

-----------------------------------------------------------------------------
(* Specifications *)

\* one Client constructed by Client::new, no call made yet, no Error created
Init ==
    /\ clients = <<NewClient>>
    /\ mutexes = <<NewMutex>>
    /\ pc = [c \in Calls |-> "idle"]
    /\ args = [c \in Calls |-> NoArgs]
    /\ req = [c \in Calls |-> NoReq]
    /\ sent = [c \in Calls |-> NoReq]
    /\ invoked = [c \in Calls |-> 0]
    /\ resp = [c \in Calls |-> NoResp]
    /\ bytesResult = [c \in Calls |-> Unresolved]
    /\ result = [c \in Calls |-> Unresolved]
    /\ heap = <<>>
    /\ owned = {}
    /\ epc = "idle"
    /\ self = 0
    /\ fail = 0
    /\ message = <<>>
    /\ steps = 0
    /\ response = NoResponse
    /\ kindSeen = NoKindSeen

\* concurrent calls through the clones of one Client
Next ==
    \/ Clone
    \/ \E c \in Calls : RequestBytes(c, ConcurrentProfile)
    \/ \E c \in Calls : Lock(c)
    \/ \E c \in Calls : LockPoisoned(c)
    \/ \E c \in Calls : Call(c)
    \/ \E c \in Calls : CallPanic(c)
    \/ \E c \in Calls : Unlock(c)
    \/ \E c \in Calls : TransportError(c, ConcurrentProfile)
    \/ \E c \in Calls : TransportResponse(c, ConcurrentProfile)
    \/ \E c \in Calls : BodyReadError(c, ConcurrentProfile)
    \/ \E c \in Calls : BodyRead(c, ConcurrentProfile)

Spec == Init /\ [][Next]_vars

\* the steps of call c once it has been made, with a transport that answers
\* (Service::call returns and its future resolves)
Progress(c) ==
    \/ Lock(c)
    \/ Call(c)
    \/ Unlock(c)
    \/ TransportError(c, ConcurrentProfile)
    \/ TransportResponse(c, ConcurrentProfile)
    \/ BodyReadError(c, ConcurrentProfile)
    \/ BodyRead(c, ConcurrentProfile)

LiveNext ==
    \/ Clone
    \/ \E c \in Calls : RequestBytes(c, ConcurrentProfile)
    \/ \E c \in Calls : Progress(c)

\* each thread keeps running and each future is polled to completion
LiveSpec == Init /\ [][LiveNext]_vars /\ \A c \in Calls : WF_vars(Progress(c))

\* one call at a time, over every kind of input and answer
SeqNext ==
    \/ Clone
    \/ RequestBytes(1, FullProfile)
    \/ Lock(1)
    \/ Call(1)
    \/ CallPanic(1)
    \/ Unlock(1)
    \/ TransportError(1, FullProfile)
    \/ TransportResponse(1, FullProfile)
    \/ BodyReadError(1, FullProfile)
    \/ BodyRead(1, FullProfile)

SeqSpec == Init /\ [][SeqNext]_vars

\* the error model: Errors are created, then rendered by into_response, which
\* runs to its end once called
ErrNext ==
    \/ FromKind
    \/ FromContext
    \/ FromFailure
    \/ IntoResponseStart
    \/ Walk
    \/ Render
    \/ Return

ErrSpec == Init /\ [][ErrNext]_vars /\ WF_vars(Walk) /\ WF_vars(Render)

\* the error model with callers that also ask Errors for their kind
ErrKindNext ==
    \/ ErrNext
    \/ KindCall

ErrKindSpec == Init /\ [][ErrKindNext]_vars

-----------------------------------------------------------------------------
(* Claims about the client *)

Started(c) == pc[c] # "idle"

\* the call's guard is the one that holds the mutex of its transport
HoldsLock(c) == Started(c) /\ mutexes[ServiceOf(c)].holder = c

\* the request has been handed to the transport and the response body has
\* neither been buffered completely nor failed
InRoundTrip(c) == pc[c] \in {"called", "pending", "reading"}

\* inside Service::call(req), between lock() and the end of the statement
InCall(c) == pc[c] \in {"locked", "called"}

\* C1 as stated: a call holds the transport lock for its whole round trip, so
\* the round trips of two calls through a Client and its clones never overlap
C1_LockHeldForRoundTrip ==
    /\ \A c \in Calls : InRoundTrip(c) => HoldsLock(c)
    /\ \A c, d \in Calls : (c # d /\ InRoundTrip(c)) => ~InRoundTrip(d)

\* C1 amended: a call holds the transport lock exactly while it hands its
\* request to the transport (from lock() to the end of the statement that
\* calls Service::call) and not while the response is awaited or its body
\* read; so the invocations of Service::call never overlap
C1_LockHeldAroundCallOnly ==
    /\ \A c \in Calls : InCall(c) <=> HoldsLock(c)
    /\ \A c, d \in Calls : (c # d /\ InCall(c)) => ~InCall(d)

\* a second request is handed to the transport while the body of the first
\* response has not been read
C1_Witness ==
    \E c, d \in Calls :
        /\ c # d
        /\ pc[c] \in {"pending", "reading"}
        /\ pc[d] = "called"
        /\ ServiceOf(c) = ServiceOf(d)

C2_NoDeadlock ==
    (\E c \in Calls : pc[c] \notin {"idle", "done"}) => \E c \in Calls : ENABLED Progress(c)

C2_LockReleased ==
    \A c \in Calls : pc[c] = "done" =>
        \A m \in 1..Len(mutexes) : mutexes[m].holder # c

C2_Completes ==
    \A c \in Calls :
        Started(c) ~> (pc[c] = "done" /\ result[c].tag \in {"Ok", "Err"})

\* C2: calls made concurrently through two clones never deadlock (while a call
\* is under way some call can take a step), a finished call holds no lock
\* whether it succeeded or failed, and with threads that keep running and a
\* transport that answers every call ends with a value or an Error
C2_NoDeadlockAndCompletion ==
    /\ []C2_NoDeadlock
    /\ []C2_LockReleased
    /\ C2_Completes

\* a call through one clone waits for the lock held by a call through another
C2_Witness ==
    \E c, d \in Calls :
        /\ c # d
        /\ pc[c] = "built"
        /\ InCall(d)
        /\ args[c].client # args[d].client

ErrKind(r) == IF r.tag = "Err" THEN r.err.kind ELSE "none"

JoinFails(a) ==
    ~Join(clients[a.client].host_name, a.path \o <<"?">> \o QueryString(a.query)).ok

EncodeFails(a) == a.body.some /\ ~ToJson(a.body.val).ok

C3_AtMostOnce == \A c \in Calls : invoked[c] <= 1

C3_ErrorEndsCall ==
    \A c \in Calls : result[c].tag = "Err" =>
        /\ pc[c] = "done"
        /\ invoked[c] = (IF JoinFails(args[c]) \/ EncodeFails(args[c]) THEN 0 ELSE 1)

C3_NoInvocationAfterError ==
    \A c \in Calls : result[c].tag = "Err" =>
        (invoked'[c] = invoked[c] /\ result'[c] = result[c])

\* C3: no retries: the transport is invoked at most once for a call of
\* request_bytes, request or request_str, and once a step has failed the call
\* has ended with its Error and the transport is not invoked for it again
C3_NoRetries ==
    /\ []C3_AtMostOnce
    /\ []C3_ErrorEndsCall
    /\ [][C3_NoInvocationAfterError]_vars

\* the last fallible step, decoding, fails after the one invocation
C3_Witness ==
    \E c \in Calls :
        /\ pc[c] = "done"
        /\ args[c].kind = "json"
        /\ bytesResult[c].tag = "Ok"
        /\ result[c].tag = "Err"
        /\ invoked[c] = 1

NeverDispatched(c) == invoked[c] = 0 /\ sent[c] = NoReq /\ ~HoldsLock(c)

C4_JoinFailure ==
    \A c \in Calls : (Started(c) /\ JoinFails(args[c])) =>
        /\ pc[c] = "done"
        /\ ErrKind(bytesResult[c]) = "UrlParse"
        /\ NeverDispatched(c)

C4_EncodeFailure ==
    \A c \in Calls : (Started(c) /\ ~JoinFails(args[c]) /\ EncodeFails(args[c])) =>
        /\ pc[c] = "done"
        /\ ErrKind(bytesResult[c]) = "JsonEncode"
        /\ NeverDispatched(c)

C4_EndsWithoutLock ==
    \A c \in Calls : (pc[c] = "idle" /\ pc'[c] # "idle"
                      /\ (JoinFails(args'[c]) \/ EncodeFails(args'[c]))) =>
        (mutexes' = mutexes /\ invoked' = invoked /\ sent' = sent)

\* C4: a call whose URL join fails ends with an Error of kind UrlParse, and a
\* call whose body does not serialise to JSON with one of kind JsonEncode; in
\* both cases the lock is not taken and the transport receives no request
C4_FailureBeforeDispatch ==
    /\ []C4_JoinFailure
    /\ []C4_EncodeFailure
    /\ [][C4_EndsWithoutLock]_vars

\* a body that does not serialise, on a path that joins
C4_Witness ==
    \E c \in Calls :
        /\ Started(c)
        /\ ~JoinFails(args[c])
        /\ EncodeFails(args[c])
        /\ ErrKind(bytesResult[c]) = "JsonEncode"

Buffered(c) == resp[c].received /\ resp[c].read = "buffered"

\* C5: a response with a status in 200..299 whose body was read gives
\* Ok(None) exactly when the body is empty and Ok(Some(body)), the bytes as
\* read, when it is not; never an Error
C5_SuccessGivesBody ==
    \A c \in Calls : (Buffered(c) /\ resp[c].status \in 200..299) =>
        /\ bytesResult[c].tag = "Ok"
        /\ (resp[c].body = <<>>) <=> (bytesResult[c].val = None)
        /\ (resp[c].body # <<>>) => (bytesResult[c].val = Some(resp[c].body))

\* the last 2xx status with an empty body
C5_Witness ==
    \E c \in Calls :
        /\ Buffered(c)
        /\ resp[c].status = 299
        /\ resp[c].body = <<>>
        /\ bytesResult[c] = Ok(None)

\* C6: a response with a status outside 200..299 whose body was read gives an
\* Error of kind RemoteFailure with that status and the body as read, empty
\* or not; never Ok
C6_FailureStatusGivesRemoteFailure ==
    \A c \in Calls : (Buffered(c) /\ resp[c].status \notin 200..299) =>
        /\ bytesResult[c].tag = "Err"
        /\ bytesResult[c].err =
               [kind |-> "RemoteFailure", status |-> resp[c].status, body |-> resp[c].body]

\* the first status past the 2xx range, with an empty body
C6_Witness ==
    \E c \in Calls :
        /\ Buffered(c)
        /\ resp[c].status = 300
        /\ resp[c].body = <<>>
        /\ ErrKind(bytesResult[c]) = "RemoteFailure"

\* Service::call returned and its future resolved to an error
DispatchFailed(c) == pc[c] = "done" /\ invoked[c] = 1 /\ ~resp[c].received

\* the response arrived and reading its body failed
BodyReadFailed(c) == pc[c] = "done" /\ resp[c].received /\ resp[c].read = "failed"

\* C7 as stated: a dispatch failure gives the transport kind, a body-read
\* failure the I/O kind
C7_BodyReadFailureIsIo ==
    \A c \in Calls :
        /\ DispatchFailed(c) => ErrKind(bytesResult[c]) = "Transport"
        /\ BodyReadFailed(c) => ErrKind(bytesResult[c]) = "Io"

\* C7 amended: both failures are hyper errors wrapped by the same conversion,
\* so a dispatch failure and a body-read failure both give the transport kind
C7_BothFailuresAreTransport ==
    \A c \in Calls : (DispatchFailed(c) \/ BodyReadFailed(c)) =>
        /\ ErrKind(bytesResult[c]) = "Transport"
        /\ bytesResult[c].err.cause.type = "HyperError"

\* reading the body failed after a successful dispatch
C7_Witness ==
    \E c \in Calls : BodyReadFailed(c) /\ ErrKind(bytesResult[c]) = "Transport"

-----------------------------------------------------------------------------
(* Claims about the error model *)

\* the nodes met from n on by following cause, at most `fuel` of them
RECURSIVE ChainFrom(_, _)
ChainFrom(n, fuel) ==
    IF n = 0 \/ fuel = 0 THEN <<>>
    ELSE <<n>> \o ChainFrom(heap[n].cause, fuel - 1)

\* the causal chain beneath e: its cause, the cause of that, ...
Links(e) == ChainFrom(heap[e].cause, Len(heap))

HasKind(n, name) == heap[n].type = "Error" /\ heap[n].kind.name = name

\* C8: into_response answers 400 exactly when the kind of the Error itself is
\* InvalidApiVersion and 500 for every other kind, whatever the kinds in the
\* chain beneath it
C8_StatusFromOutermostKind ==
    epc = "done" =>
        /\ (response.status = 400) <=> HasKind(self, "InvalidApiVersion")
        /\ ~HasKind(self, "InvalidApiVersion") => response.status = 500

\* an Error of another kind that wraps an InvalidApiVersion error
C8_Witness ==
    /\ epc = "done"
    /\ ~HasKind(self, "InvalidApiVersion")
    /\ \E i \in 1..Len(Links(self)) : HasKind(Links(self)[i], "InvalidApiVersion")
    /\ response.status = 500

CausedBySegment == <<"\n", "\t", "caused by: ">>

RECURSIVE RenderedLinks(_)
RenderedLinks(links) ==
    IF links = <<>> THEN <<>>
    ELSE CausedBySegment \o Display(heap[Head(links)]) \o RenderedLinks(Tail(links))

\* C9: the message is the display text of the Error followed, for each link
\* of its causal chain from the immediate cause to the root cause, by newline,
\* tab, "caused by: " and the link's display text, each link once; an Error
\* without a cause renders its display text alone
C9_MessageListsChainInOrder ==
    epc = "done" =>
        /\ message = Display(heap[self]) \o RenderedLinks(Links(self))
        /\ Links(self) = <<>> => message = KindDisplay(KindOf(self))

\* an Error with a chain of at least two links has been rendered
C9_Witness ==
    /\ epc = "done"
    /\ Len(Links(self)) >= 2
    /\ Len(message) > Len(Display(heap[self]))

\* following cause from any value ends before a value is met twice
C10_Acyclic ==
    \A n \in 1..Len(heap) : Len(ChainFrom(n, Len(heap) + 1)) <= Len(heap)

C10_StepsAreLinks ==
    /\ epc = "walk" => steps <= Len(Links(self))
    /\ epc = "done" => (steps = Len(Links(self)) /\ heap[fail].cause = 0)

\* C10: the causal chain of an Error is acyclic and finite, and the walk of
\* into_response ends, after as many iterations as the chain has links
C10_WalkTerminates ==
    /\ []C10_Acyclic
    /\ []C10_StepsAreLinks
    /\ (epc = "walk") ~> (epc = "done")

\* the walk of a chain of at least two links has ended
C10_Witness == epc = "done" /\ steps >= 2 /\ steps = Len(Links(self))

\* the lower-level failure an Error was converted from, if its immediate cause
\* is one
WrappedFailure(n) ==
    IF heap[n].type = "Error" /\ heap[n].cause # 0 /\ heap[heap[n].cause].type # "Error"
    THEN Some(heap[heap[n].cause])
    ELSE None

Contains(text, chunk) == \E i \in 1..Len(text) : text[i] = chunk

C11_MatchingKind ==
    \A n \in 1..Len(heap) : WrappedFailure(n).some =>
        LET f == WrappedFailure(n).val
        IN /\ f.type = "io::Error" => heap[n].kind = Kind("Io")
           /\ f.type = "HyperError" => heap[n].kind = Kind("Hyper")
           /\ f.type = "ParseError" => heap[n].kind = Kind("UrlParse")
           /\ \E l \in LowLevelFailures : f = [type |-> l.type, kind |-> NoKind,
                                                text |-> l.text, cause |-> 0]

C11_KindIsARead ==
    (kindSeen' # kindSeen /\ kindSeen'.node # 0) =>
        /\ heap' = heap
        /\ owned' = owned
        /\ kindSeen'.node \notin owned'
        /\ kindSeen'.kind = heap[kindSeen'.node].kind

C11_KindOfWrapped ==
    (kindSeen.node # 0 /\ WrappedFailure(kindSeen.node).some) =>
        LET f == WrappedFailure(kindSeen.node).val
        IN /\ f.type = "io::Error" => kindSeen.kind.name = "Io"
           /\ f.type = "HyperError" => kindSeen.kind.name = "Hyper"
           /\ f.type = "ParseError" => kindSeen.kind.name = "UrlParse"

C11_WrappedIoRenders ==
    (epc = "done" /\ WrappedFailure(self).some
                  /\ WrappedFailure(self).val.type = "io::Error") =>
        /\ response.status = 500
        /\ Contains(message, "IO error")
        /\ Contains(response.body, "IO error")

\* C11: an Error converted from a lower-level failure has the matching kind
\* (Io for an I/O failure, Hyper for a transport failure, UrlParse for a URL
\* parse failure) and the failure itself, unchanged, as its immediate cause;
\* kind() returns that kind and leaves the Error as it was and still usable;
\* a wrapped I/O failure renders with status 500 and a message containing
\* "IO error"
C11_ConversionKeepsKindAndCause ==
    /\ []C11_MatchingKind
    /\ [][C11_KindIsARead]_vars
    /\ []C11_KindOfWrapped
    /\ []C11_WrappedIoRenders

\* kind() was called on an Error converted from a transport failure
C11_Witness ==
    /\ kindSeen.node # 0
    /\ WrappedFailure(kindSeen.node).some
    /\ WrappedFailure(kindSeen.node).val.type = "HyperError"
    /\ kindSeen.kind = Kind("Hyper")

-----------------------------------------------------------------------------
(* Claims about the request the client builds *)

\* the values of the headers of that name, in the order they were added
RECURSIVE HeaderValues(_, _)
HeaderValues(headers, name) ==
    IF headers = <<>> THEN <<>>
    ELSE (IF Head(headers)[1] = name THEN <<Head(headers)[2]>> ELSE <<>>)
         \o HeaderValues(Tail(headers), name)

\* the request of call c has been handed to the transport
Dispatched(c) == sent[c] # NoReq

\* C12: the request the transport receives carries an If-Match header exactly
\* when add_if_match is true, and the value of that header is the wildcard
\* "*", whatever the path, method, query and body
C12_IfMatchIsWildcard ==
    \A c \in Calls : Dispatched(c) =>
        HeaderValues(sent[c].headers, "if-match") =
            (IF args[c].add_if_match THEN << <<"*">> >> ELSE <<>>)

\* the query component of a URI: what follows its first '?', if any
UriQuery(uri) ==
    LET q == IndexOf(uri, "?", 1)
    IN IF q = 0 THEN None ELSE Some(SubSeq(uri, q + 1, Len(uri)))

\* the pieces of s between occurrences of ch, from position i on
RECURSIVE SplitFrom(_, _, _)
SplitFrom(s, ch, i) ==
    LET n == IndexOf(s, ch, i)
    IN IF n = 0 THEN <<SubSeq(s, i, Len(s))>>
       ELSE <<SubSeq(s, i, n - 1)>> \o SplitFrom(s, ch, n + 1)

\* form-style decoding of one key or value: '+' is a space, %XX is a byte
RECURSIVE DecodeFrom(_, _)
DecodeFrom(s, i) ==
    IF i > Len(s) THEN <<>>
    ELSE IF s[i] = "+" THEN <<" ">> \o DecodeFrom(s, i + 1)
    ELSE IF s[i] = "%" /\ i + 2 <= Len(s)
         THEN LET hex == <<s[i + 1], s[i + 2]>>
              IN (CASE hex = <<"2", "6">> -> <<"&">>
                    [] hex = <<"3", "D">> -> <<"=">>
                    [] hex = <<"3", "F">> -> <<"?">>
                    [] OTHER -> <<"%">> \o hex)
                 \o DecodeFrom(s, i + 3)
    ELSE <<s[i]>> \o DecodeFrom(s, i + 1)

\* one "key=value" piece as a pair
DecodePair(piece) ==
    LET e == IndexOf(piece, "=", 1)
    IN IF e = 0 THEN <<DecodeFrom(piece, 1), <<>>>>
       ELSE <<DecodeFrom(SubSeq(piece, 1, e - 1), 1),
              DecodeFrom(SubSeq(piece, e + 1, Len(piece)), 1)>>

\* the key/value pairs a form-style query string holds, in order; empty
\* pieces hold no pair
RECURSIVE DecodePieces(_)
DecodePieces(pieces) ==
    IF pieces = <<>> THEN <<>>
    ELSE (IF Head(pieces) = <<>> THEN <<>> ELSE <<DecodePair(Head(pieces))>>)
         \o DecodePieces(Tail(pieces))

QueryPairs(q) == DecodePieces(SplitFrom(q, "&", 1))

NonEmptyQuery(a) == a.query.some /\ a.query.val # <<>>

\* C13: for a non-empty query mapping the query string of the dispatched URL
\* holds exactly the given key/value pairs, form-encoded, in the mapping's
\* iteration order: same keys, same values, nothing added
C13_QueryHasExactlyThePairs ==
    \A c \in Calls : (Dispatched(c) /\ NonEmptyQuery(args[c])) =>
        /\ UriQuery(sent[c].uri).some
        /\ UriQuery(sent[c].uri).val = AppendPairs(<<>>, args[c].query.val)
        /\ QueryPairs(UriQuery(sent[c].uri).val) = args[c].query.val

\* C14: when the query mapping is absent or empty, the dispatched URL is the
\* base URL and the path followed by a literal '?' and nothing after it: its
\* query component is present and empty
C14_EmptyQueryEndsInQuestionMark ==
    \A c \in Calls : (Dispatched(c) /\ ~NonEmptyQuery(args[c])) =>
        /\ sent[c].uri = clients[args[c].client].host_name \o args[c].path \o <<"?">>
        /\ sent[c].uri[Len(sent[c].uri)] = "?"
        /\ UriQuery(sent[c].uri) = Some(<<>>)

\* a request made with an empty mapping has been dispatched
C14_Witness ==
    \E c \in Calls :
        /\ Dispatched(c)
        /\ args[c].query = Some(<<>>)
        /\ sent[c].uri = <<"h", "/", "m", "?">>

-----------------------------------------------------------------------------
(* Claims about request and request_str *)

Decoding(c) == pc[c] = "done" /\ args[c].kind \in {"json", "str"}

C15_NoneStaysNone ==
    \A c \in Calls : Decoding(c) => ((result[c] = Ok(None)) <=> (bytesResult[c] = Ok(None)))

C15_ErrPropagates ==
    \A c \in Calls : (Decoding(c) /\ bytesResult[c].tag = "Err") =>
        result[c] = bytesResult[c]

C15_SomeIsDecoded ==
    \A c \in Calls :
        (Decoding(c) /\ bytesResult[c].tag = "Ok" /\ bytesResult[c].val.some) =>
            LET bytes == bytesResult[c].val.val
            IN IF args[c].kind = "json"
               THEN \/ /\ FromJson(bytes).ok
                        /\ result[c] = Ok(Some(FromJson(bytes).val))
                    \/ /\ ~FromJson(bytes).ok
                        /\ ErrKind(result[c]) = "JsonDecode"
               ELSE \/ /\ \A i \in 1..Len(bytes) : bytes[i] # "#FF"
                        /\ result[c] = Ok(Some(bytes))
                    \/ /\ \E i \in 1..Len(bytes) : bytes[i] = "#FF"
                        /\ ErrKind(result[c]) = "Utf8Decode"

C15_EmptySuccessIsNoError ==
    \A c \in Calls :
        (Decoding(c) /\ Buffered(c) /\ resp[c].status \in 200..299 /\ resp[c].body = <<>>) =>
            result[c] = Ok(None)

\* C15: request and request_str add only a decoding step to request_bytes:
\* they give Ok(None) exactly when request_bytes gives Ok(None), hand on an
\* Err of request_bytes unchanged, and for Ok(Some(bytes)) give the decoded
\* value, or an Error of kind JsonDecode (request) or Utf8Decode
\* (request_str) when the bytes do not decode; a 2xx response with an empty
\* body is never a decode error
C15_DecodingOnly ==
    /\ C15_NoneStaysNone
    /\ C15_ErrPropagates
    /\ C15_SomeIsDecoded
    /\ C15_EmptySuccessIsNoError

\* request_str received bytes that are not valid UTF-8
C15_Witness ==
    \E c \in Calls :
        /\ Decoding(c)
        /\ args[c].kind = "str"
        /\ bytesResult[c] = Ok(Some(<<"#FF">>))
        /\ ErrKind(result[c]) = "Utf8Decode"

\* call c is request::<T, T> with a body v that serialises, and the transport
\* answered 200 with the payload it received
EchoedRoundTrip(c) ==
    /\ pc[c] = "done"
    /\ args[c].kind = "json"
    /\ args[c].body.some
    /\ ToJson(args[c].body.val).ok
    /\ Buffered(c)
    /\ resp[c].status = 200
    /\ resp[c].body = sent[c].body

\* C16: round trip: a value v sent as the body of request::<T, T> to a
\* transport that answers 200 echoing the JSON payload it received comes back
\* as Some(v): the payload is the JSON of v, it is never taken for an empty
\* body, and it decodes to v
C16_RoundTrip ==
    \A c \in Calls : EchoedRoundTrip(c) =>
        /\ sent[c].body # <<>>
        /\ bytesResult[c] = Ok(Some(sent[c].body))
        /\ result[c] = Ok(Some(args[c].body.val))

\* a string holding a quote, which the JSON text escapes, came back
C16_Witness ==
    \E c \in Calls :
        /\ EchoedRoundTrip(c)
        /\ args[c].body.val = [t |-> "str", s |-> <<"\"">>]
        /\ sent[c].body = <<"\"", "\\", "\"", "\"">>
        /\ result[c].tag = "Ok"

-----------------------------------------------------------------------------
(* Claims about Client values *)

C17_OneTransport ==
    /\ Len(mutexes) = 1
    /\ \A i, j \in 1..Len(clients) : clients[i].service = clients[j].service

C17_BaseUrlAsConstructed ==
    \A i \in 1..Len(clients) : clients[i].host_name = <<"h">>

\* a step of a call (made, dispatched, answered, failed) leaves every Client
\* as it was, and the Clients only change by a clone being added
C17_OnlyCloneAddsClient ==
    /\ (pc' # pc) => clients' = clients
    /\ (clients' # clients) =>
           /\ Len(clients') = Len(clients) + 1
           /\ SubSeq(clients', 1, Len(clients)) = clients
           /\ mutexes' = mutexes

\* C17: whatever new, clone, request_bytes, request and request_str have done,
\* every clone refers to the one transport handle made by new (cloning makes
\* no second transport) and the base URL of every Client and clone is the URL
\* given at construction; no request, successful or failed, changes either
C17_ClonesShareTransportAndUrl ==
    /\ []C17_OneTransport
    /\ []C17_BaseUrlAsConstructed
    /\ [][C17_OnlyCloneAddsClient]_vars

\* a request made through a clone has failed
C17_Witness ==
    \E c \in Calls :
        /\ Len(clients) >= 2
        /\ pc[c] = "done"
        /\ args[c].client = 2
        /\ result[c].tag = "Err"
        /\ clients[2] = clients[1]

-----------------------------------------------------------------------------
(* Claims about the headers of the rendered response *)

\* the characters of a text that take two bytes once escaped in a JSON string
RECURSIVE EscapedCount(_, _)
EscapedCount(text, i) ==
    IF i > Len(text) THEN 0
    ELSE (IF text[i] \in {"\n", "\t", "\"", "\\"} THEN 1 ELSE 0) + EscapedCount(text, i + 1)

\* C18: every response of into_response has Content-Type application/json
\* and a Content-Length equal to the number of bytes of its JSON body in
\* UTF-8: the 14 bytes of {"message":""}, the message and one more byte for each escaped
\* character, with a non-ASCII character counted by its bytes
C18_HeadersMatchBody ==
    epc = "done" =>
        /\ response.content_type = "application/json"
        /\ response.content_length = ByteLen(response.body)
        /\ response.content_length =
               14 + ByteLen(message) + EscapedCount(message, 1)
        /\ response.body =
               <<"{", "\"", "message", "\"", ":", "\"">> \o JsonEscape(message) \o <<"\"", "}">>

\* an Error whose message holds escaped characters and a two-byte character
\* has been rendered
C18_Witness ==
    /\ epc = "done"
    /\ Contains(message, "U+00E9")
    /\ EscapedCount(message, 1) >= 2
    /\ response.content_length > Len(response.body)

-----------------------------------------------------------------------------
(* Claims about the order of body read and status classification *)

C19_ReadFailureWins ==
    \A c \in Calls : (BodyReadFailed(c) /\ resp[c].status \notin 200..299) =>
        /\ bytesResult[c].tag = "Err"
        /\ ErrKind(bytesResult[c]) # "RemoteFailure"
        /\ bytesResult[c].err.cause.type = "HyperError"

C19_RemoteFailureAfterBody ==
    \A c \in Calls : ErrKind(bytesResult[c]) = "RemoteFailure" =>
        /\ Buffered(c)
        /\ bytesResult[c].err.body = resp[c].body

C19_UndecidedWhileReading ==
    \A c \in Calls : (resp[c].received /\ resp[c].read = "reading") =>
        bytesResult[c] = Unresolved

\* C19: the body is read before the status is classified: a response with a
\* status outside 200..299 whose body read fails gives the body-read Error
\* and not a RemoteFailure, nothing is decided while the body is being read,
\* and a RemoteFailure only exists once the whole body has been buffered
C19_BodyReadBeforeClassification ==
    /\ C19_ReadFailureWins
    /\ C19_RemoteFailureAfterBody
    /\ C19_UndecidedWhileReading

\* reading the body of a 404 response failed
C19_Witness ==
    \E c \in Calls :
        /\ BodyReadFailed(c)
        /\ resp[c].status = 404
        /\ bytesResult[c].tag = "Err"
        /\ bytesResult[c].err.cause.type = "HyperError"

-----------------------------------------------------------------------------
(* Claims about panics of the transport *)

Poisoned(c) == mutexes[ServiceOf(c)].poisoned

SomePoisoned == \E m \in 1..Len(mutexes) : mutexes[m].poisoned

\* the step is a panic of the transport's call made by c under the lock
PanicsInCall(c) == pc[c] = "locked" /\ pc'[c] = "panicked"

C20_PanicPoisons ==
    \A c \in Calls : PanicsInCall(c) =>
        /\ mutexes'[ServiceOf(c)].poisoned
        /\ mutexes'[ServiceOf(c)].holder = 0

\* a poisoned lock stays poisoned and the transport behind it is not invoked
\* again
C20_PoisonIsFinal ==
    SomePoisoned => (mutexes' = mutexes /\ invoked' = invoked /\ sent' = sent)

\* a call that comes to lock() on a poisoned lock panics there: no
\* invocation, no value and no Error
C20_LockOnPoisonedPanics ==
    \A c \in Calls : (pc[c] = "built" /\ Poisoned(c) /\ pc'[c] # pc[c]) =>
        /\ pc'[c] = "panicked"
        /\ invoked'[c] = 0
        /\ bytesResult'[c] = Unresolved
        /\ result'[c] = Unresolved

\* only a panic under the lock poisons it: a step that resolves a call to a
\* value or an Error does not
C20_OnlyPanicPoisons ==
    /\ (\E m \in 1..Len(mutexes) : mutexes'[m].poisoned /\ ~mutexes[m].poisoned) =>
           \E c \in Calls : PanicsInCall(c)
    /\ (bytesResult' # bytesResult) => mutexes' = mutexes

\* a call made once the lock is poisoned does not return: neither a value nor
\* a classified Error
C20_LaterCallNeverReturns ==
    \A c \in Calls : (pc[c] = "idle" /\ SomePoisoned /\ pc'[c] # "idle") =>
        (pc'[c] # "done" /\ result'[c] = Unresolved)

\* C20 as stated: a panic of the transport's call under the lock poisons it,
\* every later call through the Client or a clone sharing the handle aborts
\* by panic at lock acquisition, without invoking the transport and without
\* returning a classified Error, and a failure returned as a value does not
\* poison the lock
C20_EveryLaterCallPanics ==
    /\ [][C20_PanicPoisons]_vars
    /\ [][C20_PoisonIsFinal]_vars
    /\ [][C20_LockOnPoisonedPanics]_vars
    /\ [][C20_LaterCallNeverReturns]_vars
    /\ [][C20_OnlyPanicPoisons]_vars

\* C20 amended: a panic of the transport's call under the lock poisons it;
\* from then on every call through the Client or a clone sharing the handle
\* that comes to lock acquisition panics there, without invoking the
\* transport and without a value or an Error, while a call whose URL join or
\* body serialisation fails still returns its Error, the lock not being
\* touched; a failure returned as a value does not poison the lock
C20_LaterLockAcquisitionPanics ==
    /\ [][C20_PanicPoisons]_vars
    /\ [][C20_PoisonIsFinal]_vars
    /\ [][C20_LockOnPoisonedPanics]_vars
    /\ [][C20_OnlyPanicPoisons]_vars

\* after a panic in a call through one Client, a call through its clone has
\* panicked at the lock
C20_Witness ==
    \E c, d \in Calls :
        /\ c # d
        /\ pc[c] = "panicked" /\ invoked[c] = 1
        /\ pc[d] = "panicked" /\ invoked[d] = 0
        /\ args[c].client # args[d].client
        /\ Poisoned(d)

=============================================================================
